---- MODULE Spec2Model ----
(***************************************************************************)
(* Model of the lexical scanner of src/lexer.c: the character classes, the *)
(* helpers skip_whitespace and check_keyword, get_next_token, and the      *)
(* do/while loop of main that drives it over a NUL-terminated buffer.      *)
(*                                                                         *)
(* A buffer is a sequence of one-character strings; position Len+1 holds   *)
(* the terminating NUL.  Positions are 1-based, so the C pointer           *)
(* source_code + k is position k + 1.                                      *)
(***************************************************************************)
EXTENDS Integers, Sequences, FiniteSets, TLC

VARIABLES source_code, current_pos, output, error_count, pc, exit_status,
          allocated, freed

\* The build driver of src/compiler_driver.c, a program of its own:
\*   args   its command line and the outcomes of the calls it makes to the
\*          system (stat, system, fopen, remove),
\*   drv    the locals of its main and the place main has reached,
\*   files  which of the files it names exist,
\*   calls  how often delete_file was called on each temporary file, and how
\*          many warnings it printed.
VARIABLES args, drv, files, calls

lexer_vars ==
  <<source_code, current_pos, output, error_count, pc, exit_status,
    allocated, freed>>

driver_vars == <<args, drv, files, calls>>

vars ==
  <<source_code, current_pos, output, error_count, pc, exit_status,
    allocated, freed, args, drv, files, calls>>

(***************************************************************************)
(* Bounds of the exploration.                                              *)
(***************************************************************************)
MaxLen == 4

MaxOverrun == 2

(***************************************************************************)
(* Token types (the enum TokenType).                                       *)
(***************************************************************************)
TOKEN_INT == "TOKEN_INT"

TOKEN_VOID == "TOKEN_VOID"

TOKEN_RETURN == "TOKEN_RETURN"

TOKEN_IDENTIFIER == "TOKEN_IDENTIFIER"

TOKEN_CONSTANT == "TOKEN_CONSTANT"

TOKEN_OPEN_PAREN == "TOKEN_OPEN_PAREN"

TOKEN_CLOSE_PAREN == "TOKEN_CLOSE_PAREN"

TOKEN_OPEN_BRACE == "TOKEN_OPEN_BRACE"

TOKEN_CLOSE_BRACE == "TOKEN_CLOSE_BRACE"

TOKEN_SEMICOLON == "TOKEN_SEMICOLON"

TOKEN_EOF == "TOKEN_EOF"

TOKEN_ERROR == "TOKEN_ERROR"

TokenType ==
  {TOKEN_INT, TOKEN_VOID, TOKEN_RETURN, TOKEN_IDENTIFIER, TOKEN_CONSTANT,
   TOKEN_OPEN_PAREN, TOKEN_CLOSE_PAREN, TOKEN_OPEN_BRACE, TOKEN_CLOSE_BRACE,
   TOKEN_SEMICOLON, TOKEN_EOF, TOKEN_ERROR}

(***************************************************************************)
(* Characters and the <ctype.h> classes in the C locale.                   *)
(***************************************************************************)
NUL == "NUL"

Lower ==
  {"a","b","c","d","e","f","g","h","i","j","k","l","m",
   "n","o","p","q","r","s","t","u","v","w","x","y","z"}

Upper ==
  {"A","B","C","D","E","F","G","H","I","J","K","L","M",
   "N","O","P","Q","R","S","T","U","V","W","X","Y","Z"}

Digit == {"0","1","2","3","4","5","6","7","8","9"}

isspace(c) == c \in {" ", "\t", "\n", "\r", "\f"}

isalpha(c) == c \in Lower \cup Upper

isdigit(c) == c \in Digit

isalnum(c) == isalpha(c) \/ isdigit(c)

(***************************************************************************)
(* The lexeme field of a Token is a char*: NULL, or an owned string.       *)
(***************************************************************************)
NULL == <<>>

Str(s) == <<s>>

Text(tok) == tok.lexeme[1]

(***************************************************************************)
(* Memory access.  b[Len(b)+1] is the terminator; nothing behind it        *)
(* belongs to the buffer.                                                  *)
(***************************************************************************)
InBuffer(b, i) == i \in 1..(Len(b) + 1)

CharAt(b, i) == IF i = Len(b) + 1 THEN NUL ELSE b[i]

Min(x, y) == IF x <= y THEN x ELSE y

\* Variant: one character fewer is copied.
strndup_short(b, i, n) == SubSeq(b, i, Min(i + n - 2, Len(b)))

\* strndup(s, n): the first n characters of the C string at position i,
\* or all of it when the terminator comes earlier.
strndup(b, i, n) == SubSeq(b, i, Min(i + n - 1, Len(b)))


(***************************************************************************)
(* skip_whitespace: the first position at or after input that holds the    *)
(* terminator or a non-space character.                                    *)
(***************************************************************************)
RECURSIVE skip_whitespace(_, _)
skip_whitespace(b, input) ==
  IF CharAt(b, input) # NUL /\ isspace(CharAt(b, input))
  THEN skip_whitespace(b, input + 1)
  ELSE input

(***************************************************************************)
(* skip_comments.  get_next_token does not call it; it says what the       *)
(* source takes a comment to be.                                           *)
(***************************************************************************)
\* while (*input != '\0' && *input != '\n') input++;
RECURSIVE line_comment_end(_, _)
line_comment_end(b, input) ==
  IF CharAt(b, input) # NUL /\ CharAt(b, input) # "\n"
  THEN line_comment_end(b, input + 1)
  ELSE input

\* while (*input != '\0' && !(input[0] == '*' && input[1] == '/')) input++;
RECURSIVE block_comment_end(_, _)
block_comment_end(b, input) ==
  IF /\ CharAt(b, input) # NUL
     /\ ~(CharAt(b, input) = "*" /\ CharAt(b, input + 1) = "/")
  THEN block_comment_end(b, input + 1)
  ELSE input

RECURSIVE skip_comments(_, _)
skip_comments(b, input) ==
  IF CharAt(b, input) = NUL THEN input
  ELSE IF CharAt(b, input) = "/" /\ CharAt(b, input + 1) = "/"
  THEN skip_comments(b, line_comment_end(b, input))
  ELSE IF CharAt(b, input) = "/" /\ CharAt(b, input + 1) = "*"
  THEN LET close == block_comment_end(b, input + 2)
       IN  skip_comments(b, IF CharAt(b, close) # NUL THEN close + 2 ELSE close)
  ELSE input

(***************************************************************************)
(* check_keyword: strcmp against the three keywords.                       *)
(***************************************************************************)
\* Variant: the keywords compared with strncmp over the keyword's length.
check_keyword_prefix(lexeme) ==
  IF Len(lexeme) >= 3 /\ SubSeq(lexeme, 1, 3) = <<"i","n","t">> THEN TOKEN_INT
  ELSE IF Len(lexeme) >= 4 /\ SubSeq(lexeme, 1, 4) = <<"v","o","i","d">>
  THEN TOKEN_VOID
  ELSE IF Len(lexeme) >= 6 /\ SubSeq(lexeme, 1, 6) = <<"r","e","t","u","r","n">>
  THEN TOKEN_RETURN
  ELSE TOKEN_IDENTIFIER

check_keyword(lexeme) ==
  IF lexeme = <<"i","n","t">> THEN TOKEN_INT
  ELSE IF lexeme = <<"v","o","i","d">> THEN TOKEN_VOID
  ELSE IF lexeme = <<"r","e","t","u","r","n">> THEN TOKEN_RETURN
  ELSE TOKEN_IDENTIFIER

(***************************************************************************)
(* The switch over the single-character tokens; TOKEN_ERROR is the value   *)
(* simple_token.type keeps when no case matches.                           *)
(***************************************************************************)
\* Variant: the switch without its case for the closing brace.
simple_token_type_no_close_brace(c) ==
  CASE c = "(" -> TOKEN_OPEN_PAREN
    [] c = ")" -> TOKEN_CLOSE_PAREN
    [] c = "{" -> TOKEN_OPEN_BRACE
    [] c = ";" -> TOKEN_SEMICOLON
    [] OTHER   -> TOKEN_ERROR

simple_token_type(c) ==
  CASE c = "(" -> TOKEN_OPEN_PAREN
    [] c = ")" -> TOKEN_CLOSE_PAREN
    [] c = "{" -> TOKEN_OPEN_BRACE
    [] c = "}" -> TOKEN_CLOSE_BRACE
    [] c = ";" -> TOKEN_SEMICOLON
    [] OTHER   -> TOKEN_ERROR

(***************************************************************************)
(* The three scanning loops of get_next_token, each as the number of       *)
(* characters its pointer moves from position p.                           *)
(***************************************************************************)
\* while (isalnum(*p) || *p == '_') { p++; len++; }
RECURSIVE identifier_run(_, _)
identifier_run(b, p) ==
  IF isalnum(CharAt(b, p)) \/ CharAt(b, p) = "_"
  THEN 1 + identifier_run(b, p + 1)
  ELSE 0

\* Variant: the digit loop written as an if.
digit_run_once(b, p) == IF isdigit(CharAt(b, p)) THEN 1 ELSE 0

\* while (isdigit(*p)) { p++; len++; }
RECURSIVE digit_run(_, _)
digit_run(b, p) ==
  IF isdigit(CharAt(b, p)) THEN 1 + digit_run(b, p + 1) ELSE 0

\* Variant: the error loop written as an if.
error_run_single(b, input) ==
  IF /\ CharAt(b, input) # NUL
     /\ ~isspace(CharAt(b, input))
     /\ CharAt(b, input) \notin {"(", ")", "{", "}", ";"}
  THEN 1
  ELSE 0

\* while (*input != '\0' && !isspace(*input) && *input is none of ( ) { } ;)
\*   { input++; len++; }
RECURSIVE error_run(_, _)
error_run(b, input) ==
  IF /\ CharAt(b, input) # NUL
     /\ ~isspace(CharAt(b, input))
     /\ CharAt(b, input) \notin {"(", ")", "{", "}", ";"}
  THEN 1 + error_run(b, input + 1)
  ELSE 0

\* Variant: the end-of-file branch steps over the terminator.
eof_token_advance(input) ==
  [type |-> TOKEN_EOF, lexeme |-> NULL, pos |-> input + 1, allocs |-> 0]

\* Token token = {TOKEN_EOF, NULL}; return token;  (cursor left at input)
eof_token(input) ==
  [type |-> TOKEN_EOF, lexeme |-> NULL, pos |-> input, allocs |-> 0]

(***************************************************************************)
(* get_next_token(&current_pos), for a cursor inside the buffer.  The      *)
(* result is the returned Token and the value left in *current_pos.        *)
(*                                                                         *)
(* len is shared by the constant rule and the error loop: the error loop   *)
(* starts counting from the value the digit loop left in it, while its     *)
(* pointer starts again at input.                                          *)
(*                                                                         *)
(* allocs counts the strings the call allocates: none on the end-of-file   *)
(* branch, otherwise the strdup("") of simple_token and the strndup of the *)
(* lexeme that is returned.                                                *)
(***************************************************************************)
get_next_token(b, cur) ==
  LET input == skip_whitespace(b, cur)
      c     == CharAt(b, input)
      idlen == identifier_run(b, input)
      idend == CharAt(b, input + idlen)
      dlen  == 1 + digit_run(b, input + 1)
      dend  == CharAt(b, input + dlen)
      len   == (IF isdigit(c) THEN dlen ELSE 0) + error_run(b, input)
      n     == IF len > 0 THEN len ELSE 1
  IN  IF c = NUL
      THEN eof_token(input)
      ELSE IF simple_token_type(c) # TOKEN_ERROR
      THEN [type   |-> simple_token_type(c),
            lexeme |-> Str(strndup(b, input, 1)),
            pos    |-> input + 1,
            allocs |-> 2]
      ELSE IF (isalpha(c) \/ c = "_") /\ ~isalnum(idend) /\ idend # "_"
      THEN [type   |-> check_keyword(strndup(b, input, idlen)),
            lexeme |-> Str(strndup(b, input, idlen)),
            pos    |-> input + idlen,
            allocs |-> 2]
      ELSE IF isdigit(c) /\ ~isalnum(dend) /\ dend # "_"
      THEN [type   |-> TOKEN_CONSTANT,
            lexeme |-> Str(strndup(b, input, dlen)),
            pos    |-> input + dlen,
            allocs |-> 2]
      ELSE [type   |-> TOKEN_ERROR,
            lexeme |-> Str(strndup(b, input, n)),
            pos    |-> input + n,
            allocs |-> 2]

(***************************************************************************)
(* Input buffers: every text over Alphabet of at most MaxLen characters,   *)
(* and the named inputs of the specification's scenarios.                  *)
(***************************************************************************)
Alphabet == {"i", "n", "t", "1", "_", " ", ";", "$"}

ScenarioA == <<"i","n","t"," ","m","a","i","n","(","v","o","i","d",")","{","r","e","t","u","r","n"," ","2",";","}">>

ScenarioB == <<"f","o","o","$","b","a","r">>

ScenarioC == <<"1","2","a","b","c",";">>

ScenarioD == <<"/","/"," ","c","o","m","m","e","n","t","\n","i","n","t"," ","x",";">>

ScenarioE == <<"/","*"," ","u","n","t","e","r","m","i","n","a","t","e","d">>

KeywordMix ==
  <<"i","n","t"," ","i","n","t","e","g","e","r"," ","i","n","t","_"," ","r","e","t","u","r","n","2"," ","v","o","i","d"," ","r","e","t","u","r","n">>

KeywordCases ==
  {<<"v","o","i","d">>,
   <<"r","e","t","u","r","n">>,
   <<"i","n","t","e","g","e","r">>,
   <<"r","e","t","u","r","n","2">>,
   <<"v","o","i","d","x">>,
   <<"I","n","t">>,
   <<"_","i","n","t">>,
   KeywordMix}

ConstantMix == <<"1","2"," ","3","4",";","7","$">>

ConstantCases ==
  {<<"2",";">>,
   ConstantMix,
   <<"7","$">>,
   <<"(","4","2",")">>}

WhitespaceOnly == <<" ","\t","\n"," ">>

LineCommentOnly == <<"/","/"," ","c">>

BlockCommentOnly == <<"/","*"," ","c"," ","*","/">>

TriviaMix == <<" ","/","*"," ","a"," ","*","/"," ","/","/"," ","b","\n"," ">>

TriviaCases == {WhitespaceOnly, LineCommentOnly, BlockCommentOnly, TriviaMix}

Buffers ==
  UNION {[1..n -> Alphabet] : n \in 0..MaxLen}
    \cup {ScenarioA, ScenarioB, ScenarioC, ScenarioD, ScenarioE}
    \cup KeywordCases \cup ConstantCases \cup TriviaCases

\* The build driver before it is started; the scanner runs without it.
DriverIdle ==
  /\ args = [argc |-> 0, option |-> "", input_exists |-> FALSE,
             preprocess_ok |-> FALSE, fopen_ok |-> FALSE, link_ok |-> FALSE,
             remove_i_ok |-> FALSE, remove_s_ok |-> FALSE]
  /\ drv = [at |-> "idle", compiler_option |-> "", emit_assembly_only |-> FALSE,
            preprocessed |-> FALSE, linked |-> FALSE, status |-> -1]
  /\ files = [preprocessed_file |-> FALSE, assembly_file |-> FALSE,
              final_name |-> FALSE]
  /\ calls = [delete_preprocessed |-> 0, delete_assembly |-> 0, warnings |-> 0]

(***************************************************************************)
(* main, from the declaration of current_pos to the return.                *)
(***************************************************************************)
Init ==
  /\ DriverIdle
  /\ source_code \in Buffers
  /\ current_pos = 1
  /\ output = <<>>
  /\ error_count = 0
  /\ pc = "loop"
  /\ exit_status = -1
  /\ allocated = 0
  /\ freed = 0

\* One pass of the do/while body with the cursor inside the buffer.
Iterate ==
  /\ pc = "loop"
  /\ InBuffer(source_code, current_pos)
  /\ LET current_token == get_next_token(source_code, current_pos)
     IN  /\ output' = Append(output, [type   |-> current_token.type,
                                      lexeme |-> current_token.lexeme,
                                      from   |-> current_pos,
                                      to     |-> current_token.pos])
         /\ current_pos' = current_token.pos
         /\ error_count' = IF current_token.type = TOKEN_ERROR
                           THEN error_count + 1
                           ELSE error_count
         /\ allocated' = allocated + current_token.allocs
         /\ freed' = IF current_token.lexeme # NULL THEN freed + 1 ELSE freed
         /\ pc' = IF current_token.type # TOKEN_EOF THEN "loop" ELSE "summary"
  /\ UNCHANGED <<source_code, exit_status>>
  /\ UNCHANGED driver_vars

(***************************************************************************)
(* A pass of the loop with the cursor behind the terminator.  The first    *)
(* read of get_next_token is outside the buffer, which is undefined: the   *)
(* read faults, or it yields whatever byte the neighbouring memory holds.  *)
(***************************************************************************)
GarbageBytes == {NUL, "a", "1", ";", "$"}

garbage_type(g) ==
  IF g = NUL THEN TOKEN_EOF
  ELSE IF simple_token_type(g) # TOKEN_ERROR THEN simple_token_type(g)
  ELSE IF isalpha(g) \/ g = "_" THEN check_keyword(<<g>>)
  ELSE IF isdigit(g) THEN TOKEN_CONSTANT
  ELSE TOKEN_ERROR

IterateFault ==
  /\ pc = "loop"
  /\ ~InBuffer(source_code, current_pos)
  /\ pc' = "crashed"
  /\ UNCHANGED <<source_code, current_pos, output, error_count, exit_status,
                 allocated, freed>>
  /\ UNCHANGED driver_vars

IterateGarbage ==
  /\ pc = "loop"
  /\ ~InBuffer(source_code, current_pos)
  /\ \E g \in GarbageBytes :
       LET type == garbage_type(g)
           to   == IF g = NUL THEN current_pos ELSE current_pos + 1
       IN  /\ g # NUL => current_pos <= Len(source_code) + MaxOverrun
           /\ output' = Append(output, [type   |-> type,
                                        lexeme |-> IF g = NUL THEN NULL
                                                   ELSE Str(<<g>>),
                                        from   |-> current_pos,
                                        to     |-> to])
           /\ current_pos' = to
           /\ error_count' = IF type = TOKEN_ERROR
                             THEN error_count + 1
                             ELSE error_count
           /\ allocated' = IF g = NUL THEN allocated ELSE allocated + 2
           /\ freed' = IF g = NUL THEN freed ELSE freed + 1
           /\ pc' = IF type # TOKEN_EOF THEN "loop" ELSE "summary"
  /\ UNCHANGED <<source_code, exit_status>>
  /\ UNCHANGED driver_vars

\* Variant: main returns 0 whatever the error count.
Exit_always_success ==
  /\ pc = "summary"
  /\ exit_status' = 0
  /\ pc' = "done"
  /\ UNCHANGED <<source_code, current_pos, output, error_count,
                 allocated, freed>>
  /\ UNCHANGED driver_vars

\* The summary after the loop and the return value of main.
Exit ==
  /\ pc = "summary"
  /\ exit_status' = IF error_count > 0 THEN 1 ELSE 0
  /\ pc' = "done"
  /\ UNCHANGED <<source_code, current_pos, output, error_count,
                 allocated, freed>>
  /\ UNCHANGED driver_vars

Next == Iterate \/ IterateFault \/ IterateGarbage \/ Exit

Spec == Init /\ [][Next]_vars

\* The program is sequential: a step that can be taken is taken.
FairSpec == Spec /\ WF_vars(Next)

(***************************************************************************)
(* Views of the state used by the properties.                              *)
(***************************************************************************)
\* The token list as (kind, text) pairs.
Rendered == [k \in 1..Len(output) |-> <<output[k].type, output[k].lexeme>>]

Tok(type, text) == <<type, Str(text)>>

EndOfInput == <<TOKEN_EOF, NULL>>

TypeOK ==
  /\ source_code \in Buffers
  /\ current_pos \in 1..(2 * Len(source_code) + MaxOverrun + 2)
  /\ error_count \in 0..Len(output)
  /\ pc \in {"loop", "summary", "done", "crashed"}
  /\ exit_status \in {-1, 0, 1}
  /\ allocated \in 0..(2 * Len(output))
  /\ freed \in 0..Len(output)
  /\ \A k \in 1..Len(output) : output[k].type \in TokenType


IsPrefix(s, t) == Len(s) <= Len(t) /\ s = SubSeq(t, 1, Len(s))

Finished == pc \in {"summary", "done"}

\* The passes of the loop that ran with the cursor inside the buffer.
Scans == {k \in 1..Len(output) : InBuffer(source_code, output[k].from)}

\* Where scan k began to classify: its cursor after leading whitespace.
Start(k) == skip_whitespace(source_code, output[k].from)

IsWordChar(c) == isalnum(c) \/ c = "_"

IsBoundary(c) == c = NUL \/ isspace(c) \/ c \in {"(", ")", "{", "}", ";"}

EofOnceLast ==
  /\ Len(output) > 0
  /\ output[Len(output)].type = TOKEN_EOF
  /\ \A k \in 1..(Len(output) - 1) : output[k].type # TOKEN_EOF

(***************************************************************************)
(* C1.  Every scan reachable from the buffer start returns, with a cursor  *)
(* not before the one it was given; the cursor stays where it was only     *)
(* when it was already at the end of the buffer, and the token is then     *)
(* EndOfInput; every scan that returns another token moves the cursor      *)
(* forward.                                                                *)
(***************************************************************************)
C1_ScanAdvancesCursor ==
  /\ pc # "crashed"
  /\ \A k \in 1..Len(output) :
       /\ output[k].to >= output[k].from
       /\ output[k].to = output[k].from =>
            /\ output[k].from = Len(source_code) + 1
            /\ output[k].type = TOKEN_EOF
       /\ output[k].type # TOKEN_EOF => output[k].to > output[k].from

(***************************************************************************)
(* C2.  The loop over any finite buffer terminates: it eventually has      *)
(* produced EndOfInput, exactly once and as the last token.                *)
(***************************************************************************)
C2_TokenizeAllTerminates == <>(pc = "done" /\ EofOnceLast)

(***************************************************************************)
(* C3.  The input "int main(void){return 2;}" yields Int,                  *)
(* Identifier("main"), OpenParen, Void, CloseParen, OpenBrace, Return,     *)
(* Constant("2"), Semicolon, CloseBrace, EndOfInput and no Malformed token.*)
(***************************************************************************)
ExpectedA ==
  <<Tok(TOKEN_INT, <<"i","n","t">>),
    Tok(TOKEN_IDENTIFIER, <<"m","a","i","n">>),
    Tok(TOKEN_OPEN_PAREN, <<"(">>),
    Tok(TOKEN_VOID, <<"v","o","i","d">>),
    Tok(TOKEN_CLOSE_PAREN, <<")">>),
    Tok(TOKEN_OPEN_BRACE, <<"{">>),
    Tok(TOKEN_RETURN, <<"r","e","t","u","r","n">>),
    Tok(TOKEN_CONSTANT, <<"2">>),
    Tok(TOKEN_SEMICOLON, <<";">>),
    Tok(TOKEN_CLOSE_BRACE, <<"}">>),
    EndOfInput>>

C3_ScenarioA ==
  source_code = ScenarioA =>
    /\ pc # "crashed"
    /\ IsPrefix(Rendered, ExpectedA)
    /\ error_count = 0
    /\ Finished => Rendered = ExpectedA

C3_Witness == source_code = ScenarioA /\ pc = "done" /\ Len(output) = 11

(***************************************************************************)
(* C4.  A Malformed token scanned from position p has as text exactly the  *)
(* maximal run from p of characters that are neither whitespace nor a      *)
(* single-character punctuator, and the cursor it leaves is the first      *)
(* position after that run, from where the next scan starts.               *)
(***************************************************************************)
C4_MalformedIsMaximalRun ==
  \A k \in Scans :
    output[k].type = TOKEN_ERROR =>
      /\ InBuffer(source_code, output[k].to)
      /\ Text(output[k]) = SubSeq(source_code, Start(k), output[k].to - 1)
      /\ \A i \in Start(k)..(output[k].to - 1) :
           ~IsBoundary(CharAt(source_code, i))
      /\ IsBoundary(CharAt(source_code, output[k].to))

(***************************************************************************)
(* C5.  A digit run directly followed by a letter, digit or underscore     *)
(* gives one Malformed token from the start of the digit run up to the     *)
(* next whitespace or punctuator, and the next token is scanned from that  *)
(* boundary: "12abc;" yields Malformed("12abc"), Semicolon, EndOfInput.    *)
(***************************************************************************)
ExpectedC ==
  <<Tok(TOKEN_ERROR, <<"1","2","a","b","c">>),
    Tok(TOKEN_SEMICOLON, <<";">>),
    EndOfInput>>

C5_DisqualifiedConstant ==
  source_code = ScenarioC =>
    /\ pc # "crashed"
    /\ IsPrefix(Rendered, ExpectedC)
    /\ Finished => Rendered = ExpectedC

(***************************************************************************)
(* C6.  As claimed: "foo$bar" yields Identifier("foo"), Malformed("$"),    *)
(* Identifier("bar"), EndOfInput.                                          *)
(***************************************************************************)
OriginalB ==
  <<Tok(TOKEN_IDENTIFIER, <<"f","o","o">>),
    Tok(TOKEN_ERROR, <<"$">>),
    Tok(TOKEN_IDENTIFIER, <<"b","a","r">>),
    EndOfInput>>

C6_ScenarioB_AsClaimed ==
  (source_code = ScenarioB /\ Finished) => Rendered = OriginalB

(***************************************************************************)
(* C6, amended.  "foo$bar" yields Identifier("foo"), Malformed("$bar"),    *)
(* EndOfInput: the identifier rule stops before "$", and the malformed run *)
(* that starts at "$" runs on over the letters to the end of the buffer.   *)
(***************************************************************************)
ExpectedB ==
  <<Tok(TOKEN_IDENTIFIER, <<"f","o","o">>),
    Tok(TOKEN_ERROR, <<"$","b","a","r">>),
    EndOfInput>>

C6_ScenarioB ==
  source_code = ScenarioB =>
    /\ pc # "crashed"
    /\ IsPrefix(Rendered, ExpectedB)
    /\ Finished => Rendered = ExpectedB /\ error_count = 1

C6_Witness == source_code = ScenarioB /\ pc = "done" /\ Len(output) = 3

(***************************************************************************)
(* C7.  A scan that starts at a letter or underscore consumes the maximal  *)
(* run of letters, digits and underscores; the token is Int, Void or       *)
(* Return exactly when the whole run is "int", "void" or "return", and     *)
(* Identifier with the run as text otherwise.                              *)
(***************************************************************************)
C7_KeywordIffExactRun ==
  \A k \in Scans :
    LET c    == CharAt(source_code, Start(k))
        text == SubSeq(source_code, Start(k), output[k].to - 1)
    IN  (isalpha(c) \/ c = "_") =>
          /\ InBuffer(source_code, output[k].to)
          /\ \A i \in Start(k)..(output[k].to - 1) :
               IsWordChar(CharAt(source_code, i))
          /\ ~IsWordChar(CharAt(source_code, output[k].to))
          /\ Text(output[k]) = text
          /\ output[k].type = TOKEN_INT <=> text = <<"i","n","t">>
          /\ output[k].type = TOKEN_VOID <=> text = <<"v","o","i","d">>
          /\ output[k].type = TOKEN_RETURN <=>
               text = <<"r","e","t","u","r","n">>
          /\ output[k].type \in
               {TOKEN_INT, TOKEN_VOID, TOKEN_RETURN, TOKEN_IDENTIFIER}

C7_Witness ==
  /\ source_code = KeywordMix
  /\ pc = "done"
  /\ Rendered = <<Tok(TOKEN_INT, <<"i","n","t">>),
                  Tok(TOKEN_IDENTIFIER, <<"i","n","t","e","g","e","r">>),
                  Tok(TOKEN_IDENTIFIER, <<"i","n","t","_">>),
                  Tok(TOKEN_IDENTIFIER, <<"r","e","t","u","r","n","2">>),
                  Tok(TOKEN_VOID, <<"v","o","i","d">>),
                  Tok(TOKEN_RETURN, <<"r","e","t","u","r","n">>),
                  EndOfInput>>

(***************************************************************************)
(* C8.  A scan that starts at a digit whose maximal digit run is not       *)
(* followed by a letter, digit or underscore emits Constant with exactly   *)
(* the digit run as text and moves the cursor by the length of the run.    *)
(***************************************************************************)
C8_ConstantIsDigitRun ==
  \A k \in Scans :
    \A d \in 1..Len(source_code) :
      ( /\ \A i \in Start(k)..(Start(k) + d - 1) :
             isdigit(CharAt(source_code, i))
        /\ ~IsWordChar(CharAt(source_code, Start(k) + d)) )
      => /\ output[k].type = TOKEN_CONSTANT
         /\ Text(output[k]) = SubSeq(source_code, Start(k), Start(k) + d - 1)
         /\ output[k].to = Start(k) + d

C8_Witness ==
  /\ source_code = ConstantMix
  /\ pc = "done"
  /\ Rendered = <<Tok(TOKEN_CONSTANT, <<"1","2">>),
                  Tok(TOKEN_CONSTANT, <<"3","4">>),
                  Tok(TOKEN_SEMICOLON, <<";">>),
                  Tok(TOKEN_CONSTANT, <<"7">>),
                  Tok(TOKEN_ERROR, <<"$">>),
                  EndOfInput>>

(***************************************************************************)
(* C9.  A "//" comment produces no token: "// comment\nint x;" yields      *)
(* Int, Identifier("x"), Semicolon, EndOfInput.                            *)
(***************************************************************************)
ExpectedD ==
  <<Tok(TOKEN_INT, <<"i","n","t">>),
    Tok(TOKEN_IDENTIFIER, <<"x">>),
    Tok(TOKEN_SEMICOLON, <<";">>),
    EndOfInput>>

C9_LineCommentElided ==
  source_code = ScenarioD =>
    /\ IsPrefix(Rendered, ExpectedD)
    /\ Finished => Rendered = ExpectedD

(***************************************************************************)
(* C10.  A block comment that is never closed ends at the end of the       *)
(* buffer without an error: "/* unterminated" yields only EndOfInput and   *)
(* no Malformed token.                                                     *)
(***************************************************************************)
C10_UnterminatedBlockComment ==
  source_code = ScenarioE =>
    /\ error_count = 0
    /\ IsPrefix(Rendered, <<EndOfInput>>)
    /\ Finished => Rendered = <<EndOfInput>>

(***************************************************************************)
(* C11.  A buffer of whitespace only, or of comments only (line or block,  *)
(* possibly with whitespace between them), yields exactly one token,       *)
(* EndOfInput, and no Malformed token.                                     *)
(***************************************************************************)
\* The end of the trivia that starts at position i: whitespace and comments
\* skipped in turn until neither moves.
RECURSIVE TriviaEnd(_, _)
TriviaEnd(b, i) ==
  LET j == skip_comments(b, skip_whitespace(b, i))
  IN  IF j = i THEN i ELSE TriviaEnd(b, j)

IsTriviaOnly(b) == TriviaEnd(b, 1) = Len(b) + 1

C11_TriviaOnlyBuffer ==
  IsTriviaOnly(source_code) =>
    /\ error_count = 0
    /\ IsPrefix(Rendered, <<EndOfInput>>)
    /\ Finished => Rendered = <<EndOfInput>>

(***************************************************************************)
(* C12.  For a buffer that tokenizes without a Malformed token, inserting  *)
(* whitespace or a comment between two adjacent tokens leaves the sequence *)
(* of (kind, text) tokens unchanged.                                       *)
(***************************************************************************)
\* The loop of main as a function of the buffer: the tokens from cursor cur
\* on, up to EndOfInput or to a cursor that has left the buffer.
RECURSIVE tokenize_all(_, _)
tokenize_all(b, cur) ==
  LET current_token == get_next_token(b, cur)
      rendered      == <<current_token.type, current_token.lexeme>>
  IN  IF current_token.type = TOKEN_EOF \/ ~InBuffer(b, current_token.pos)
      THEN <<rendered>>
      ELSE <<rendered>> \o tokenize_all(b, current_token.pos)

\* The buffer b with the text t inserted before position i.
Insert(b, i, t) == SubSeq(b, 1, i - 1) \o t \o SubSeq(b, i, Len(b))

TriviaInserts ==
  {<<" ">>, <<"\n">>, <<"\t"," ">>,
   <<"/","*"," ","c"," ","*","/">>,
   <<"/","/"," ","c","\n">>}

C12_TriviaInsertion ==
  (Finished /\ error_count = 0) =>
    \A k \in 1..(Len(output) - 2) :
      \A i \in output[k].to..Start(k + 1) :
        \A t \in TriviaInserts :
          tokenize_all(Insert(source_code, i, t), 1) = Rendered

(***************************************************************************)
(* C13.  error_count is the number of Malformed tokens produced, and after *)
(* a full scan main returns 1 when that number is positive and 0 when no   *)
(* Malformed token was produced.                                           *)
(***************************************************************************)
MalformedTokens == {k \in 1..Len(output) : output[k].type = TOKEN_ERROR}

C13_ErrorCountAndExitStatus ==
  /\ error_count = Cardinality(MalformedTokens)
  /\ pc = "done" =>
       /\ EofOnceLast
       /\ MalformedTokens # {} => exit_status = 1
       /\ MalformedTokens = {} => exit_status = 0

C13_Witness ==
  /\ pc = "done"
  /\ source_code = <<"$", " ", "$", ";">>
  /\ error_count = 2
  /\ exit_status = 1

(***************************************************************************)
(* C14.  Every Malformed token carries text of at least one character.     *)
(***************************************************************************)
C14_MalformedTextNonEmpty ==
  \A k \in 1..Len(output) :
    output[k].type = TOKEN_ERROR =>
      /\ output[k].lexeme # NULL
      /\ Len(Text(output[k])) >= 1

\* A run that gave a one-character Malformed token from inside the buffer.
C14_Witness ==
  /\ source_code = <<"7", "$">>
  /\ pc = "done"
  /\ Rendered = <<Tok(TOKEN_CONSTANT, <<"7">>), Tok(TOKEN_ERROR, <<"$">>),
                  EndOfInput>>

(***************************************************************************)
(* C15.  EndOfInput is terminal: a further scan from the cursor that a     *)
(* scan returning EndOfInput left returns EndOfInput again and leaves the  *)
(* cursor where it is.                                                     *)
(***************************************************************************)
C15_EndOfInputTerminal ==
  \A k \in Scans :
    output[k].type = TOKEN_EOF =>
      /\ InBuffer(source_code, output[k].to)
      /\ get_next_token(source_code, output[k].to).type = TOKEN_EOF
      /\ get_next_token(source_code, output[k].to).lexeme = NULL
      /\ get_next_token(source_code, output[k].to).pos = output[k].to

\* EndOfInput returned behind trailing whitespace, and scanned once more.
C15_Witness ==
  /\ source_code = <<";", " ", " ">>
  /\ pc = "done"
  /\ output[2].type = TOKEN_EOF
  /\ output[2].from = 2
  /\ output[2].to = 4
  /\ get_next_token(source_code, current_pos) = eof_token(4)

(***************************************************************************)
(* C16.  The empty buffer yields exactly one token, EndOfInput, and no     *)
(* Malformed token; the cursor stays at the start.                         *)
(***************************************************************************)
C16_EmptyBuffer ==
  source_code = <<>> =>
    /\ pc # "crashed"
    /\ error_count = 0
    /\ current_pos = 1
    /\ IsPrefix(Rendered, <<EndOfInput>>)
    /\ Finished => Rendered = <<EndOfInput>>

C16_Witness ==
  /\ source_code = <<>>
  /\ pc = "done"
  /\ Len(output) = 1
  /\ exit_status = 0

(***************************************************************************)
(* C17.  The cursor is always a position of the buffer: it never moves     *)
(* past the terminator, so no scan reads behind the end of the buffer.     *)
(***************************************************************************)
C17_CursorInsideBuffer ==
  /\ InBuffer(source_code, current_pos)
  /\ pc # "crashed"

(***************************************************************************)
(* C18.  The text of every token other than EndOfInput is exactly the      *)
(* part of the buffer between the start of its scan after whitespace and   *)
(* the returned cursor; the cursor moves by the length of the text.        *)
(***************************************************************************)
C18_TextIsConsumedSpan ==
  \A k \in Scans :
    output[k].type # TOKEN_EOF =>
      /\ InBuffer(source_code, output[k].to)
      /\ output[k].to - Start(k) = Len(Text(output[k]))
      /\ Text(output[k]) = SubSeq(source_code, Start(k), output[k].to - 1)

(***************************************************************************)
(* C19.  Over a full run of the loop every string that get_next_token      *)
(* allocated has been released, once, by the loop, and the EndOfInput      *)
(* token carries no text.                                                  *)
(***************************************************************************)
C19_LexemesReleased ==
  /\ \A k \in 1..Len(output) :
       output[k].type = TOKEN_EOF => output[k].lexeme = NULL
  /\ freed <= allocated
  /\ Finished => allocated = freed

(***************************************************************************)
(* The build driver, src/compiler_driver.c.                                *)
(***************************************************************************)
EXIT_SUCCESS == 0

EXIT_FAILURE == 1

\* argv[2] when it selects a stage of the compiler pass.
StageOptions == {"--lex", "--parse", "--codegen"}

\* The values tried for argv[2]; "-x" stands for any unknown option.
Options == StageOptions \cup {"-S", "-x"}

\* The scanner is not part of a run of the build driver.
LexerIdle ==
  /\ source_code = <<>>
  /\ current_pos = 1
  /\ output = <<>>
  /\ error_count = 0
  /\ pc = "idle"
  /\ exit_status = -1
  /\ allocated = 0
  /\ freed = 0

(***************************************************************************)
(* delete_file: remove() succeeds when the file is there and the system    *)
(* allows it; otherwise the warning is printed and the file is as before.  *)
(***************************************************************************)
delete_file(exists, remove_ok) ==
  IF exists /\ remove_ok
  THEN [status |-> EXIT_SUCCESS, exists |-> FALSE, warned |-> 0]
  ELSE [status |-> EXIT_FAILURE, exists |-> exists, warned |-> 1]

(***************************************************************************)
(* run_compiler_pass: with a stage option the stub succeeds and writes     *)
(* nothing; without one it writes the assembly file, and fails when the    *)
(* file cannot be opened.  The C NULL option is the empty string here.     *)
(***************************************************************************)
run_compiler_pass(option, fopen_ok) ==
  IF option # "" THEN [status |-> EXIT_SUCCESS, created |-> FALSE]
  ELSE IF fopen_ok THEN [status |-> EXIT_SUCCESS, created |-> TRUE]
  ELSE [status |-> EXIT_FAILURE, created |-> FALSE]

\* Variant: a failed clean-up turns into the driver's result.
stage_result_or_delete(result, delete_status) ==
  IF result # EXIT_SUCCESS THEN result ELSE delete_status

\* int result = run_compiler_pass(...); delete_file(...); return result;
stage_result(result, delete_status) == result

DriverInit ==
  /\ LexerIdle
  /\ args \in [argc          : 1..4,
               option        : Options \cup {""},
               input_exists  : BOOLEAN,
               preprocess_ok : BOOLEAN,
               fopen_ok      : BOOLEAN,
               link_ok       : BOOLEAN,
               remove_i_ok   : BOOLEAN,
               remove_s_ok   : BOOLEAN]
  /\ (args.argc >= 3) <=> (args.option # "")
  /\ drv = [at |-> "start", compiler_option |-> "", emit_assembly_only |-> FALSE,
            preprocessed |-> FALSE, linked |-> FALSE, status |-> -1]
  /\ files = [preprocessed_file |-> FALSE, assembly_file |-> FALSE,
              final_name |-> FALSE]
  /\ calls = [delete_preprocessed |-> 0, delete_assembly |-> 0, warnings |-> 0]

\* The argument checks at the head of main.
ParseArgs ==
  /\ drv.at = "start"
  /\ drv' =
       IF args.argc < 2 \/ args.argc > 3
       THEN [drv EXCEPT !.at = "exit", !.status = EXIT_FAILURE]
       ELSE IF args.argc = 3 /\ args.option \in StageOptions
       THEN [drv EXCEPT !.at = "check_input", !.compiler_option = args.option]
       ELSE IF args.argc = 3 /\ args.option = "-S"
       THEN [drv EXCEPT !.at = "check_input", !.emit_assembly_only = TRUE]
       ELSE IF args.argc = 3
       THEN [drv EXCEPT !.at = "exit", !.status = EXIT_FAILURE]
       ELSE [drv EXCEPT !.at = "check_input"]
  /\ UNCHANGED <<args, files, calls>>
  /\ UNCHANGED lexer_vars

\* if (!file_exists(input_path)) return EXIT_FAILURE;
CheckInput ==
  /\ drv.at = "check_input"
  /\ drv' = IF ~args.input_exists
            THEN [drv EXCEPT !.at = "exit", !.status = EXIT_FAILURE]
            ELSE [drv EXCEPT !.at = "preprocess"]
  /\ UNCHANGED <<args, files, calls>>
  /\ UNCHANGED lexer_vars

\* Step 1: system("gcc -E -P input -o preprocessed_file").
Preprocess ==
  /\ drv.at = "preprocess"
  /\ IF ~args.preprocess_ok
     THEN /\ drv' = [drv EXCEPT !.at = "exit", !.status = EXIT_FAILURE]
          /\ UNCHANGED files
     ELSE /\ drv' = [drv EXCEPT !.at = "pass", !.preprocessed = TRUE]
          /\ files' = [files EXCEPT !.preprocessed_file = TRUE]
  /\ UNCHANGED <<args, calls>>
  /\ UNCHANGED lexer_vars

\* if (compiler_option) { run the stage, delete the .i file, return result }
StagePass ==
  /\ drv.at = "pass"
  /\ drv.compiler_option # ""
  /\ LET result  == run_compiler_pass(drv.compiler_option, args.fopen_ok)
         deleted == delete_file(files.preprocessed_file, args.remove_i_ok)
     IN  /\ files' = [files EXCEPT !.preprocessed_file = deleted.exists]
         /\ calls' = [calls EXCEPT
                        !.delete_preprocessed = @ + 1,
                        !.warnings = @ + deleted.warned]
         /\ drv' = [drv EXCEPT
                      !.at = "exit",
                      !.status = stage_result(result.status, deleted.status)]
  /\ UNCHANGED args
  /\ UNCHANGED lexer_vars

\* Step 2: the full compiler pass, the deletion of the .i file, and the two
\* returns that follow it (compiler failure, -S).
CompilePass ==
  /\ drv.at = "pass"
  /\ drv.compiler_option = ""
  /\ LET compiler_result == run_compiler_pass("", args.fopen_ok)
         deleted == delete_file(files.preprocessed_file, args.remove_i_ok)
     IN  /\ files' = [files EXCEPT
                        !.preprocessed_file = deleted.exists,
                        !.assembly_file = @ \/ compiler_result.created]
         /\ calls' = [calls EXCEPT
                        !.delete_preprocessed = @ + 1,
                        !.warnings = @ + deleted.warned]
         /\ drv' =
              IF compiler_result.status # 0
              THEN [drv EXCEPT !.at = "exit", !.status = EXIT_FAILURE]
              ELSE IF drv.emit_assembly_only
              THEN [drv EXCEPT !.at = "exit", !.status = EXIT_SUCCESS]
              ELSE [drv EXCEPT !.at = "link"]
  /\ UNCHANGED args
  /\ UNCHANGED lexer_vars

\* Step 3: system("gcc assembly_file -o final_name"), the deletion of the .s
\* file, and the return.
Link ==
  /\ drv.at = "link"
  /\ LET link_status == IF args.link_ok THEN 0 ELSE 1
         deleted == delete_file(files.assembly_file, args.remove_s_ok)
     IN  /\ files' = [files EXCEPT
                        !.final_name = @ \/ args.link_ok,
                        !.assembly_file = deleted.exists]
         /\ calls' = [calls EXCEPT
                        !.delete_assembly = @ + 1,
                        !.warnings = @ + deleted.warned]
         /\ drv' = [drv EXCEPT
                      !.at = "exit",
                      !.linked = TRUE,
                      !.status = IF link_status # 0 THEN EXIT_FAILURE
                                 ELSE EXIT_SUCCESS]
  /\ UNCHANGED args
  /\ UNCHANGED lexer_vars

DriverNext ==
  ParseArgs \/ CheckInput \/ Preprocess \/ StagePass \/ CompilePass \/ Link

DriverSpec == DriverInit /\ [][DriverNext]_vars

(***************************************************************************)
(* C20.  On every path of the build driver that follows a successful       *)
(* preprocessing step, delete_file is called on the .i file exactly once   *)
(* before the driver exits, and whether that deletion succeeds changes     *)
(* nothing in the exit status; delete_file is called on the .s file after  *)
(* the link attempt whatever the link's outcome, and the .s file is kept   *)
(* only on the -S path.                                                    *)
(***************************************************************************)
\* The exit status as the command line, the compiler pass and the link
\* decide it; the outcome of no deletion takes part.
StatusWithoutDeletes ==
  IF drv.compiler_option # "" THEN EXIT_SUCCESS
  ELSE IF ~args.fopen_ok THEN EXIT_FAILURE
  ELSE IF drv.emit_assembly_only THEN EXIT_SUCCESS
  ELSE IF args.link_ok THEN EXIT_SUCCESS
  ELSE EXIT_FAILURE

C20_TemporaryFilesCleanedUp ==
  /\ calls.delete_preprocessed <= 1
  /\ ~drv.preprocessed => calls.delete_preprocessed = 0
  /\ calls.delete_assembly = IF drv.linked THEN 1 ELSE 0
  /\ (drv.at = "exit" /\ drv.preprocessed) =>
       /\ calls.delete_preprocessed = 1
       /\ drv.status = StatusWithoutDeletes
       /\ drv.linked <=>
            /\ drv.compiler_option = ""
            /\ args.fopen_ok
            /\ ~drv.emit_assembly_only
       /\ (drv.emit_assembly_only /\ args.fopen_ok) =>
            files.assembly_file /\ calls.delete_assembly = 0
       /\ files.assembly_file => drv.emit_assembly_only \/ ~args.remove_s_ok

\* The link failed and the .i file could not be removed: one warning for it,
\* both deletions attempted, exit status from the link alone.
C20_Witness ==
  /\ drv.at = "exit"
  /\ drv.linked
  /\ ~args.link_ok
  /\ ~args.remove_i_ok
  /\ args.remove_s_ok
  /\ calls = [delete_preprocessed |-> 1, delete_assembly |-> 1, warnings |-> 1]
  /\ files.preprocessed_file
  /\ ~files.assembly_file
  /\ drv.status = EXIT_FAILURE

====
